---- MODULE Spec2Model ----
(***************************************************************************)
(* Model of the urbanemissions RAG core:                                   *)
(*   indexer/chunker.py : url_to_slug, split_into_sentences, chunk_text,   *)
(*                        chunk_documents                                  *)
(*   backend/rag.py     : RAGPipeline.retrieve (deduplication loop) and    *)
(*                        RAGPipeline.query (source aggregation loop)      *)
(* Strings are sequences of one-character strings.                         *)
(***************************************************************************)
EXTENDS Integers, Sequences, FiniteSets, TLC

VARIABLES
    pc,              \* position in chunk_text
    step,            \* which statement group ran last (observer of the branch taken)
    text, title, chunk_size, overlap, min_chunk_size,   \* arguments of chunk_text
    paragraphs,      \* chunker.py:27
    pidx,            \* index of the paragraph the for loop (line 32) is at
    current,         \* chunker.py:30
    chunks,          \* chunker.py:29
    result           \* chunker.py:74

VARIABLES
    dpc,             \* position in chunk_documents
    documents,       \* its argument
    didx,            \* index of the document the for loop (line 87) is at
    all_chunks       \* chunker.py:85

VARIABLES
    rpc,             \* position in retrieve / query
    entry,           \* the method called: "retrieve" or "query"
    hits,            \* what collection.query returned (rag.py:37), best first
    top_k,           \* argument of retrieve
    ridx,            \* index of the hit the for loop (rag.py:50) is at
    url_counts,      \* rag.py:47
    deduped,         \* rag.py:48
    qidx,            \* index of the context the for loop (rag.py:143) is at
    seen_urls,       \* rag.py:142
    sources          \* rag.py:141

chunkVars == <<pc, step, text, title, chunk_size, overlap, min_chunk_size,
               paragraphs, pidx, current, chunks, result>>
docVars == <<dpc, documents, didx, all_chunks>>
ragVars == <<rpc, entry, hits, top_k, ridx, url_counts, deduped, qidx,
             seen_urls, sources>>

vars == <<chunkVars, docVars, ragVars>>

-----------------------------------------------------------------------------
(* Bounds of the enumerated inputs.                                        *)
MaxLen == 6          \* longest enumerated text
MaxChunk == 4        \* largest enumerated chunk_size
MaxMin == 2          \* largest enumerated min_chunk_size
MaxDocs == 2         \* longest enumerated document batch
MaxHits == 4         \* longest enumerated hit list
MaxTopK == 3         \* largest enumerated top_k of a direct retrieve call

-----------------------------------------------------------------------------
(* Characters.  Python's str.strip() and the regex class \s both act on    *)
(* whitespace; the sentence regex looks behind for one of . ! ?            *)
NL == "\n"
SP == " "
Whitespace == {SP, NL}
Terminators == {".", "!", "?"}

Letters == <<"a","b","c","d","e","f","g","h","i","j","k","l","m",
             "n","o","p","q","r","s","u","v","w","x","y","z">>

Min2(a, b) == IF a <= b THEN a ELSE b
Max2(a, b) == IF a >= b THEN a ELSE b

(* s[a:] and s[:b] and s[-k:] of Python, for 0 <= a, b, k.                 *)
From(s, a) == SubSeq(s, Min2(a, Len(s)) + 1, Len(s))
Upto(s, b) == SubSeq(s, 1, Min2(b, Len(s)))
\* s[-k:] : -0 is 0, so s[-0:] is the whole string
LastChars(s, k) == IF k = 0 \/ k >= Len(s) THEN s ELSE SubSeq(s, Len(s) - k + 1, Len(s))

StartsWith(s, p) == Len(p) <= Len(s) /\ SubSeq(s, 1, Len(p)) = p

(* str.strip() *)
Strip(s) ==
    IF \A i \in 1..Len(s) : s[i] \in Whitespace THEN <<>>
    ELSE LET a == CHOOSE i \in 1..Len(s) :
                     s[i] \notin Whitespace /\ \A j \in 1..(i-1) : s[j] \in Whitespace
             b == CHOOSE i \in 1..Len(s) :
                     s[i] \notin Whitespace /\ \A j \in (i+1)..Len(s) : s[j] \in Whitespace
         IN SubSeq(s, a, b)

(* sep.join(parts) *)
RECURSIVE Join(_, _)
Join(parts, sep) ==
    IF parts = <<>> THEN <<>>
    ELSE IF Len(parts) = 1 THEN parts[1]
    ELSE parts[1] \o sep \o Join(Tail(parts), sep)

(* text.split("\n\n"): the pieces between the non-overlapping occurrences  *)
(* of the separator, found left to right, from position p on.              *)
RECURSIVE SplitBlankFrom(_, _)
SplitBlankFrom(s, p) ==
    LET found == {i \in p..(Len(s)-1) : s[i] = NL /\ s[i+1] = NL}
    IN IF found = {} THEN <<SubSeq(s, p, Len(s))>>
       ELSE LET i == CHOOSE x \in found : \A y \in found : x <= y
            IN <<SubSeq(s, p, i-1)>> \o SplitBlankFrom(s, i+2)

SplitBlank(s) == SplitBlankFrom(s, 1)

(* re.split(r"(?<=[.!?])\s+", s): a separator is a maximal whitespace run  *)
(* whose preceding character is a terminator.                              *)
RECURSIVE SentencesFrom(_, _)
SentencesFrom(s, p) ==
    LET found == {i \in (p+1)..Len(s) : s[i] \in Whitespace /\ s[i-1] \in Terminators}
    IN IF found = {} THEN <<SubSeq(s, p, Len(s))>>
       ELSE LET i == CHOOSE x \in found : \A y \in found : x <= y
                rest == {j \in (i+1)..Len(s) : s[j] \notin Whitespace}
                e == IF rest = {} THEN Len(s) + 1
                     ELSE CHOOSE x \in rest : \A y \in rest : x <= y
            IN <<SubSeq(s, p, i-1)>> \o SentencesFrom(s, e)

split_into_sentences(s) == SentencesFrom(s, 1)

-----------------------------------------------------------------------------
(* chunk_text, statement group by statement group.                         *)

(* line 27 *)
RECURSIVE StripAndKeep(_)
StripAndKeep(ps) ==
    IF ps = <<>> THEN <<>>
    ELSE LET p == Strip(Head(ps))
         IN (IF p = <<>> THEN <<>> ELSE <<p>>) \o StripAndKeep(Tail(ps))

Paragraphs(t) == StripAndKeep(SplitBlank(t))

(* line 34: the paragraph does not fit *)
Finalizes(cur, para, cs) == cur # <<>> /\ Len(cur) + Len(para) + 2 > cs

(* lines 37-46: the buffer that follows a finalized one *)
CarryOver(cur, para, ov) ==
    IF Len(cur) > ov
    THEN LET overlap_text == LastChars(cur, ov)
             sentences == split_into_sentences(overlap_text)
         IN IF Len(sentences) > 1
            THEN Join(Tail(sentences), <<SP>>) \o <<NL, NL>> \o para
            ELSE overlap_text \o <<NL, NL>> \o para
    ELSE cur \o <<NL, NL>> \o para

(* lines 34-48: one paragraph taken into the buffer *)
TakePara(cur, chs, para, cs, ov) ==
    IF Finalizes(cur, para, cs)
    THEN [current |-> CarryOver(cur, para, ov), chunks |-> Append(chs, cur)]
    ELSE [current |-> IF cur # <<>> THEN Strip(cur \o <<NL, NL>> \o para) ELSE para,
          chunks |-> chs]

(* line 51: len(current) > chunk_size * 1.5 *)
TooLong(cur, cs) == 2 * Len(cur) > 3 * cs

(* lines 54-60: the for loop over the sentences from index i (1-based) on; *)
(* brk = 0 when the loop runs to its end without break.                    *)
RECURSIVE Accumulate(_, _, _, _)
Accumulate(sentences, i, chunk, cs) ==
    IF i > Len(sentences) THEN [chunk |-> chunk, brk |-> 0]
    ELSE IF Len(chunk) + Len(sentences[i]) + 1 > cs /\ chunk # <<>>
         THEN [chunk |-> chunk, brk |-> i]
         ELSE Accumulate(sentences, i + 1,
                         IF chunk # <<>> THEN Strip(chunk \o <<SP>> \o sentences[i])
                         ELSE sentences[i],
                         cs)

(* lines 63-64: the hard split *)
\* faulty variant: the cut is one character short
HardCutChunkBeforeOverlap(cur, cs) == Upto(cur, cs - 1)
HardCutChunk(cur, cs) == Upto(cur, cs)
\* faulty variant: the overlap is forgotten
HardCutRestNoOverlap(cur, cs, ov) == From(cur, cs)
HardCutRest(cur, cs, ov) == From(cur, cs - ov)

\* faulty variant: the sentence that did not fit is left out of the rest
ForceIterDropsSentence(cur, chs, cs, ov) ==
    LET sentences == split_into_sentences(cur)
        acc == Accumulate(sentences, 1, <<>>, cs)
    IN IF acc.brk = 0
       THEN [current |-> HardCutRest(cur, cs, ov),
             chunks |-> Append(chs, HardCutChunk(cur, cs)),
             kind |-> "hardcut"]
       ELSE [current |-> Join(SubSeq(sentences, acc.brk + 1, Len(sentences)), <<SP>>),
             chunks |-> Append(chs, acc.chunk),
             kind |-> "sentcut"]

(* lines 53-68: one iteration of the while loop *)
ForceIter(cur, chs, cs, ov) ==
    LET sentences == split_into_sentences(cur)
        acc == Accumulate(sentences, 1, <<>>, cs)
    IN IF acc.brk = 0
       THEN [current |-> HardCutRest(cur, cs, ov),
             chunks |-> Append(chs, HardCutChunk(cur, cs)),
             kind |-> "hardcut"]
       ELSE [current |-> Join(SubSeq(sentences, acc.brk, Len(sentences)), <<SP>>),
             chunks |-> Append(chs, acc.chunk),
             kind |-> "sentcut"]

\* faulty variant: the length is taken before the chunk is trimmed
KeepsUntrimmed(chunk, minsz) == Len(chunk) >= minsz
(* lines 76-77 *)
Keeps(chunk, minsz) == Len(Strip(chunk)) >= minsz

(* lines 74-78 *)
RECURSIVE FilterChunks(_, _, _)
FilterChunks(chs, ttl, minsz) ==
    IF chs = <<>> THEN <<>>
    ELSE (IF Keeps(Head(chs), minsz)
          THEN <<ttl \o <<NL, NL>> \o Strip(Head(chs))>>
          ELSE <<>>) \o FilterChunks(Tail(chs), ttl, minsz)

(* lines 51-68: the while loop *)
RECURSIVE ForceLoop(_, _, _, _)
ForceLoop(cur, chs, cs, ov) ==
    IF TooLong(cur, cs)
    THEN LET r == ForceIter(cur, chs, cs, ov)
         IN ForceLoop(r.current, r.chunks, cs, ov)
    ELSE [current |-> cur, chunks |-> chs]

(* lines 32-68: the for loop from paragraph i on *)
RECURSIVE ParagraphLoop(_, _, _, _, _, _)
ParagraphLoop(ps, i, cur, chs, cs, ov) ==
    IF i > Len(ps) THEN [current |-> cur, chunks |-> chs]
    ELSE LET t == TakePara(cur, chs, ps[i], cs, ov)
             f == ForceLoop(t.current, t.chunks, cs, ov)
         IN ParagraphLoop(ps, i + 1, f.current, f.chunks, cs, ov)

(* lines 70-71 *)
Flush(cur, chs) == IF cur # <<>> THEN Append(chs, cur) ELSE chs

(* chunk_text as a function of its arguments (the call of line 94) *)
ChunkText(t, ttl, cs, ov, minsz) ==
    LET r == ParagraphLoop(Paragraphs(t), 1, <<>>, <<>>, cs, ov)
    IN FilterChunks(Flush(r.current, r.chunks), ttl, minsz)

(* the three components at rest: a specification of one component leaves  *)
(* the other two here                                                      *)
ChunkIdle ==
    /\ pc = "idle" /\ step = "idle" /\ text = <<>> /\ title = <<>>
    /\ chunk_size = 0 /\ overlap = 0 /\ min_chunk_size = 0
    /\ paragraphs = <<>> /\ pidx = 0 /\ current = <<>> /\ chunks = <<>>
    /\ result = <<>>
DocIdle ==
    dpc = "idle" /\ documents = <<>> /\ didx = 0 /\ all_chunks = <<>>
RagIdle ==
    /\ rpc = "idle" /\ entry = "none" /\ hits = <<>> /\ top_k = 0 /\ ridx = 0
    /\ url_counts = <<>> /\ deduped = <<>> /\ qidx = 0 /\ seen_urls = <<>>
    /\ sources = <<>>

-----------------------------------------------------------------------------
(* Inputs.  chunk_text treats every character that is neither whitespace   *)
(* nor a terminator alike, so an enumerated text has at position i either  *)
(* the i-th letter, a full stop or a newline (a lone newline is the        *)
(* whitespace inside a paragraph, two in a row end it; spaces enter the    *)
(* buffer through the joins of lines 42 and 68).  Distinct letters let a   *)
(* chunk's characters be traced back to the text.                          *)
Classes == {"L", "P", "N"}
Render(c) == [i \in 1..Len(c) |->
                 CASE c[i] = "L" -> Letters[i]
                   [] c[i] = "P" -> "."
                   [] OTHER -> NL]
Texts == UNION {{Render(c) : c \in [1..n -> Classes]} : n \in 0..MaxLen}
Titles == {<<"T">>}

Init ==
    /\ pc = "start"
    /\ step = "init"
    /\ text \in Texts
    /\ title \in Titles
    /\ chunk_size \in 1..MaxChunk
    /\ overlap \in 0..(chunk_size - 1)
    /\ min_chunk_size \in 0..MaxMin
    /\ paragraphs = <<>>
    /\ pidx = 1
    /\ current = <<>>
    /\ chunks = <<>>
    /\ result = <<>>
    /\ DocIdle
    /\ RagIdle

args == <<text, title, chunk_size, overlap, min_chunk_size>>

(* lines 27-30 *)
SplitParagraphs ==
    /\ pc = "start"
    /\ paragraphs' = Paragraphs(text)
    /\ pidx' = 1
    /\ current' = <<>>
    /\ chunks' = <<>>
    /\ pc' = "for"
    /\ step' = "split"
    /\ UNCHANGED <<args, result>>

(* lines 32-48 *)
TakeParagraph ==
    /\ pc = "for"
    /\ pidx <= Len(paragraphs)
    /\ LET r == TakePara(current, chunks, paragraphs[pidx], chunk_size, overlap)
       IN /\ current' = r.current
          /\ chunks' = r.chunks
          /\ step' = IF Finalizes(current, paragraphs[pidx], chunk_size)
                     THEN "finalize" ELSE "merge"
    /\ pc' = "while"
    /\ UNCHANGED <<args, paragraphs, pidx, result>>

(* lines 51-68, one iteration *)
ForcedSplit ==
    /\ pc = "while"
    /\ TooLong(current, chunk_size)
    /\ LET r == ForceIter(current, chunks, chunk_size, overlap)
       IN /\ current' = r.current
          /\ chunks' = r.chunks
          /\ step' = r.kind
    /\ UNCHANGED <<pc, args, paragraphs, pidx, result>>

(* line 51 false: on to the next paragraph *)
NextParagraph ==
    /\ pc = "while"
    /\ ~TooLong(current, chunk_size)
    /\ pidx' = pidx + 1
    /\ pc' = "for"
    /\ step' = "next"
    /\ UNCHANGED <<args, paragraphs, current, chunks, result>>

(* lines 70-80 *)
FlushAndFilter ==
    /\ pc = "for"
    /\ pidx > Len(paragraphs)
    /\ LET all == Flush(current, chunks)
       IN /\ chunks' = all
          /\ result' = FilterChunks(all, title, min_chunk_size)
    /\ pc' = "done"
    /\ step' = "return"
    /\ UNCHANGED <<args, paragraphs, pidx, current>>

ChunkNext ==
    \/ SplitParagraphs
    \/ TakeParagraph
    \/ ForcedSplit
    \/ NextParagraph
    \/ FlushAndFilter

Next == ChunkNext /\ UNCHANGED <<docVars, ragVars>>

Spec == Init /\ [][Next]_vars

-----------------------------------------------------------------------------
(* Vocabulary of the segmenter claims.                                     *)

(* the body of a returned chunk: what follows title + blank line *)
Body(r) == From(r, Len(title) + 2)
Bodies(rs) == [i \in 1..Len(rs) |-> Body(rs[i])]
Stripped(chs) == [i \in 1..Len(chs) |-> Strip(chs[i])]

NonWs(s) == SelectSeq(s, LAMBDA c : c \notin Whitespace)
Chars(s) == {s[i] : i \in 1..Len(s)}

(* Reading bodies in order against the text t (whitespace aside): a body   *)
(* must match t at an offset p within what is already covered (so there is *)
(* no gap); it then extends the covered prefix.  CoveredAfter is the set   *)
(* of prefix lengths that can be covered after all bodies are read.        *)
ReadBody(t, b, covered) ==
    {Max2(c, p + Len(b)) : <<c, p>> \in
        {x \in covered \X (0..Len(t)) :
            /\ x[2] <= x[1]
            /\ x[2] + Len(b) <= Len(t)
            /\ SubSeq(t, x[2] + 1, x[2] + Len(b)) = b}}

RECURSIVE CoveredAfter(_, _, _)
CoveredAfter(t, bodies, covered) ==
    IF bodies = <<>> THEN covered
    ELSE CoveredAfter(t, Tail(bodies), ReadBody(t, NonWs(Head(bodies)), covered))

Reconstructs(bodies, t) ==
    /\ Len(NonWs(t)) \in CoveredAfter(NonWs(t), bodies, {0})
    /\ Chars(NonWs(t)) \subseteq UNION {Chars(bodies[i]) : i \in 1..Len(bodies)}

IsForcedSplitState == pc = "while" /\ TooLong(current, chunk_size)

(* the statement-by-statement actions compute what ChunkText computes *)
StepsAgreeWithChunkText ==
    pc = "done" =>
        result = ChunkText(text, title, chunk_size, overlap, min_chunk_size)

-----------------------------------------------------------------------------
(* C1: every iteration of the forced-split loop strictly shortens the      *)
(* buffer, and an iteration that takes the hard cut shortens it by exactly *)
(* chunk_size - overlap characters (chunk_size >= 1, 0 <= overlap <        *)
(* chunk_size).  So the call terminates: a call that has not returned can  *)
(* take a step, and every step inside the paragraph loop decreases, in     *)
(* lexicographic order, (paragraphs left, for before while, len(buffer)).  *)
Left == Len(paragraphs) - pidx
Phase == IF pc = "for" THEN 1 ELSE 0
VariantDecreases ==
    (pc \in {"for", "while"} /\ pc' # "done") =>
        \/ Left' < Left
        \/ Left' = Left /\ Phase' < Phase
        \/ Left' = Left /\ Phase' = Phase /\ Len(current') < Len(current)

C1_ForcedSplitProgress ==
    [][/\ VariantDecreases
       /\ (IsForcedSplitState =>
             (/\ Len(current') < Len(current)
              /\ (step' = "hardcut" =>
                     Len(current') = Len(current) - (chunk_size - overlap))))]_vars

(* a hard cut has just run for the second time on one buffer, with overlap *)
C1_Witness ==
    /\ pc = "while" /\ step = "hardcut" /\ overlap > 0
    /\ Len(chunks) >= 2 /\ TooLong(current, chunk_size)

-----------------------------------------------------------------------------
(* C2: every returned chunk body is strictly shorter than 1.5 * chunk_size *)
C2_BodyBelowThreshold ==
    pc = "done" =>
        \A i \in 1..Len(result) : 2 * Len(Body(result[i])) < 3 * chunk_size

(* Not only at the boundary 1.5 * chunk_size itself: a sentence longer     *)
(* than 1.5 * chunk_size that another sentence follows is emitted whole,   *)
(* so the bound fails with <= in place of < too.                           *)
BodyAtMostThreshold ==
    pc = "done" =>
        \A i \in 1..Len(result) : 2 * Len(Body(result[i])) <= 3 * chunk_size

-----------------------------------------------------------------------------
(* C3 as stated: the returned bodies, read in order and skipping overlaps, *)
(* reconstruct the text without gaps and hold each of its characters.      *)
C3_ReturnedBodiesReconstruct ==
    pc = "done" => Reconstructs(Bodies(result), text)

(* C3 amended: the candidate chunks (the list before the length filter of  *)
(* lines 74-78) reconstruct the text without gaps and hold each of its     *)
(* characters; the returned bodies are those candidates, trimmed, minus    *)
(* the ones shorter than min_chunk_size, so they reconstruct the text      *)
(* whenever the filter drops nothing.                                      *)
C3_CandidatesReconstruct ==
    pc = "done" =>
        /\ Reconstructs(Stripped(chunks), text)
        /\ Bodies(result) =
              SelectSeq(Stripped(chunks), LAMBDA c : Len(c) >= min_chunk_size)
        /\ (Len(result) = Len(chunks) => Reconstructs(Bodies(result), text))

(* a text cut by sentence, by hard cut and by paragraph, nothing dropped *)
C3_Witness ==
    /\ pc = "done" /\ Len(result) = Len(chunks) /\ Len(chunks) >= 3
    /\ Len(paragraphs) >= 2 /\ overlap > 0 /\ min_chunk_size > 0

-----------------------------------------------------------------------------
(* C4: every returned chunk is title + blank line + a trimmed body of at   *)
(* least min_chunk_size characters; the bodies are candidates taken whole  *)
(* (never padded); an empty text and a text shorter than min_chunk_size    *)
(* give an empty result.                                                   *)
C4_BodiesReachMinimum ==
    pc = "done" =>
        /\ \A i \in 1..Len(result) :
              /\ StartsWith(result[i], title \o <<NL, NL>>)
              /\ Body(result[i]) = Strip(Body(result[i]))
              /\ Len(Body(result[i])) >= min_chunk_size
              /\ \E j \in 1..Len(chunks) : Body(result[i]) = Strip(chunks[j])
        /\ (text = <<>> => result = <<>>)
        /\ (Len(text) < min_chunk_size => result = <<>>)

(* a call that both dropped a short candidate and kept a long enough one *)
C4_Witness ==
    /\ pc = "done" /\ min_chunk_size >= 2
    /\ result # <<>> /\ Len(result) < Len(chunks)

(* a text shorter than min_chunk_size: nothing is returned *)
C4_ShortTextWitness ==
    pc = "done" /\ text # <<>> /\ Len(text) < min_chunk_size /\ chunks # <<>>

-----------------------------------------------------------------------------
(* C10 as stated: when a non-empty buffer of any length is finalized, the  *)
(* new buffer is seed + blank line + paragraph, the seed being the last    *)
(* `overlap` characters of the finalized buffer, without their first       *)
(* sentence if they hold more than one; the seed is at most `overlap`      *)
(* characters long.                                                        *)
LastOverlap(buf, ov) == SubSeq(buf, Max2(Len(buf) - ov, 0) + 1, Len(buf))
SeedOf(fragment) ==
    IF Len(split_into_sentences(fragment)) > 1
    THEN Join(Tail(split_into_sentences(fragment)), <<SP>>)
    ELSE fragment

IsFinalizeState ==
    /\ pc = "for" /\ pidx <= Len(paragraphs)
    /\ Finalizes(current, paragraphs[pidx], chunk_size)

C10_SeedFromOverlapWindow ==
    [][IsFinalizeState =>
          LET seed == SeedOf(LastOverlap(current, overlap))
          IN /\ current' = seed \o <<NL, NL>> \o paragraphs[pidx]
             /\ Len(seed) <= overlap]_vars

(* The two ways the code departs from it, each on its own (the first two   *)
(* formulas fail, the third holds):                                        *)
(* a buffer no longer than `overlap` is carried over whole (line 46) ...   *)
C10_LongBufferOnly ==
    [][(IsFinalizeState /\ Len(current) > overlap) =>
          LET seed == SeedOf(LastOverlap(current, overlap))
          IN /\ current' = seed \o <<NL, NL>> \o paragraphs[pidx]
             /\ Len(seed) <= overlap]_vars

C10_PositiveOverlapOnly ==
    [][(IsFinalizeState /\ overlap > 0) =>
          LET seed == SeedOf(LastOverlap(current, overlap))
          IN /\ current' = seed \o <<NL, NL>> \o paragraphs[pidx]
             /\ Len(seed) <= overlap]_vars

(* ... and with overlap = 0 line 39 reads current[-0:], the whole buffer.  *)
C10_PositiveOverlapLongBuffer ==
    [][(IsFinalizeState /\ Len(current) > overlap /\ overlap > 0) =>
          LET seed == SeedOf(LastOverlap(current, overlap))
          IN /\ current' = seed \o <<NL, NL>> \o paragraphs[pidx]
             /\ Len(seed) <= overlap]_vars

-----------------------------------------------------------------------------
(* Vocabulary of C11.  A buffer is sentence-free when none of its          *)
(* whitespace follows a terminator; the sentence regex then returns the    *)
(* buffer as its only sentence.                                            *)
SentenceFree(buf) ==
    \A i \in 2..Len(buf) : ~(buf[i] \in Whitespace /\ buf[i-1] \in Terminators)

(* what C11 says the candidate chunks of a sentence-free buffer are:       *)
(* windows of chunk_size characters, chunk_size - overlap apart, while the *)
(* buffer is longer than 1.5 * chunk_size, and then the remainder.         *)
RECURSIVE Windows(_, _, _)
Windows(buf, cs, ov) ==
    IF 2 * Len(buf) > 3 * cs
    THEN <<SubSeq(buf, 1, cs)>> \o Windows(SubSeq(buf, cs - ov + 1, Len(buf)), cs, ov)
    ELSE <<buf>>

IsSentenceFreeSplit ==
    pc = "while" /\ 2 * Len(current) > 3 * chunk_size /\ SentenceFree(current)

AfterHardCut == pc = "while" /\ step = "hardcut"

(* the text is one sentence-free paragraph longer than 1.5 * chunk_size *)
OneSentenceFreeBlock ==
    /\ Len(paragraphs) = 1
    /\ SentenceFree(paragraphs[1])
    /\ 2 * Len(paragraphs[1]) > 3 * chunk_size

(* every iteration on a sentence-free buffer takes the hard cut: the first *)
(* chunk_size characters are appended to the chunks, the buffer continues  *)
(* from offset chunk_size - overlap and so begins with the last `overlap`  *)
(* characters of the chunk; after a hard cut the loop runs again exactly   *)
(* when the buffer is still longer than 1.5 * chunk_size.                  *)
HardCutIteration ==
    /\ (IsSentenceFreeSplit =>
          /\ step' = "hardcut"
          /\ chunks' = Append(chunks, SubSeq(current, 1, chunk_size))
          /\ current' = SubSeq(current, chunk_size - overlap + 1, Len(current))
          /\ SentenceFree(current')
          /\ Len(current') > overlap
          /\ SubSeq(current', 1, overlap)
               = SubSeq(current, chunk_size - overlap + 1, chunk_size))
    /\ (AfterHardCut /\ 2 * Len(current) <= 3 * chunk_size =>
          pc' = "for" /\ current' = current /\ chunks' = chunks)

(* C11 as stated: on a sentence-free buffer longer than 1.5 * chunk_size   *)
(* (overlap < chunk_size) every forced-split iteration emits the first     *)
(* chunk_size characters and continues from offset chunk_size - overlap,   *)
(* the loop stops once the remainder is at most 1.5 * chunk_size, and the  *)
(* chunk BODY that a hard cut produces is exactly chunk_size characters    *)
(* long.                                                                   *)
C11_HardCutBodiesExact ==
    [][/\ HardCutIteration
       /\ (IsSentenceFreeSplit =>
             Len(Strip(chunks'[Len(chunks')])) = chunk_size)]_vars

(* C11, amended: the same iteration, stop and overlap, stated of the       *)
(* candidate chunks (each hard-cut candidate is exactly chunk_size         *)
(* characters, a body is the candidate trimmed at line 75 and can be       *)
(* shorter); and when the text is one sentence-free paragraph, the         *)
(* candidates at return are exactly the windows followed by the remainder, *)
(* flushed as the last chunk, the result being those of them that pass the *)
(* filter of lines 74-78.                                                  *)
C11_HardCutCandidates ==
    /\ [][/\ HardCutIteration
          /\ (IsSentenceFreeSplit =>
                /\ Len(chunks'[Len(chunks')]) = chunk_size
                /\ Len(Strip(chunks'[Len(chunks')])) <= chunk_size)]_vars
    /\ [](pc = "done" /\ OneSentenceFreeBlock =>
            /\ chunks = Windows(paragraphs[1], chunk_size, overlap)
            /\ result = FilterChunks(chunks, title, min_chunk_size))

(* one sentence-free paragraph was cut three times with overlap and the    *)
(* remainder flushed; one of the cuts fell next to whitespace              *)
C11_Witness ==
    /\ pc = "done" /\ OneSentenceFreeBlock /\ overlap > 0
    /\ Len(chunks) >= 4
    /\ \E i \in 1..(Len(chunks) - 1) : Len(Strip(chunks[i])) < chunk_size

-----------------------------------------------------------------------------
(* chunk_documents and url_to_slug (chunker.py:6-10, 83-111).              *)

Rep(c, n) == [i \in 1..n |-> c]

(* str.replace(old, ""): the occurrences of old, found left to right, are  *)
(* removed; what follows position p - 1 is scanned.                        *)
RECURSIVE RemoveAllFrom(_, _, _)
RemoveAllFrom(s, old, p) ==
    LET found == {i \in p..(Len(s) - Len(old) + 1) :
                     SubSeq(s, i, i + Len(old) - 1) = old}
    IN IF found = {} THEN SubSeq(s, p, Len(s))
       ELSE LET i == CHOOSE x \in found : \A y \in found : x <= y
            IN SubSeq(s, p, i - 1) \o RemoveAllFrom(s, old, i + Len(old))

RemoveAll(s, old) == RemoveAllFrom(s, old, 1)

Alnum == {"a","b","c","d","e","f","g","h","i","j","k","l","m","n","o","p","q",
          "r","s","t","u","v","w","x","y","z",
          "A","B","C","D","E","F","G","H","I","J","K","L","M","N","O","P","Q",
          "R","S","T","U","V","W","X","Y","Z",
          "0","1","2","3","4","5","6","7","8","9"}

(* str.strip("_") *)
StripUnderscores(s) ==
    IF \A i \in 1..Len(s) : s[i] = "_" THEN <<>>
    ELSE LET a == CHOOSE i \in 1..Len(s) :
                     s[i] # "_" /\ \A j \in 1..(i-1) : s[j] = "_"
             b == CHOOSE i \in 1..Len(s) :
                     s[i] # "_" /\ \A j \in (i+1)..Len(s) : s[j] = "_"
         IN SubSeq(s, a, b)

Https == <<"h","t","t","p","s",":","/","/">>
Http == <<"h","t","t","p",":","/","/">>

(* lines 8-10 *)
url_to_slug(url) ==
    LET slug == RemoveAll(RemoveAll(url, Https), Http)
    IN StripUnderscores([i \in 1..Len(slug) |->
                            IF slug[i] \in Alnum THEN slug[i] ELSE "_"])

(* the decimal digits an f-string writes for an index i >= 0 *)
Digits == <<"0","1","2","3","4","5","6","7","8","9">>
RECURSIVE IntToStr(_)
IntToStr(n) ==
    IF n < 10 THEN <<Digits[n + 1]>>
    ELSE IntToStr(n \div 10) \o <<Digits[(n % 10) + 1]>>

(* the defaults of chunk_text, which line 94 calls with two arguments *)
DefaultChunkSize == 800
DefaultOverlap == 200
DefaultMinChunkSize == 100

\* faulty variant: enumerate(chunks, 1) numbers the chunks from 1
DocChunksFromOne(doc) ==
    LET slug == url_to_slug(doc.url)
        cs == ChunkText(doc.text, doc.title, DefaultChunkSize, DefaultOverlap,
                        DefaultMinChunkSize)
    IN [i \in 1..Len(cs) |->
          [id |-> slug \o <<"_">> \o IntToStr(i),
           text |-> cs[i],
           metadata |-> [url |-> doc.url, title |-> doc.title,
                         category |-> doc.category, chunk_index |-> i]]]

(* lines 88-108: the chunk dicts of one document (enumerate counts from 0) *)
DocChunks(doc) ==
    LET slug == url_to_slug(doc.url)
        cs == ChunkText(doc.text, doc.title, DefaultChunkSize, DefaultOverlap,
                        DefaultMinChunkSize)
    IN [i \in 1..Len(cs) |->
          [id |-> slug \o <<"_">> \o IntToStr(i - 1),
           text |-> cs[i],
           metadata |-> [url |-> doc.url, title |-> doc.title,
                         category |-> doc.category, chunk_index |-> i - 1]]]

(* Documents of the batch: a few urls (two of them with one slug) and      *)
(* texts at the scale of the defaults: one too short for a chunk, one of   *)
(* two paragraphs of five sentences each, one of 7000 letters that the     *)
(* hard cut turns into eleven chunks.                                      *)
Sentence == Rep("a", 99) \o <<".">>
Para504 == Join(<<Sentence, Sentence, Sentence, Sentence, Sentence>>, <<SP>>)
DocUrls == {Https \o <<"a",".","b","/","c">>,
            Http \o <<"a",".","b","/","c","/">>,
            Https \o Http \o <<"X","1">>}
DocTexts == {Rep("a", 50), Para504 \o <<NL, NL>> \o Para504}
LongText == Rep("a", 7000)
Docs == [url : DocUrls, title : Titles, category : {"guide"}, text : DocTexts]
        \cup [url : {Https \o <<"a",".","b","/","c">>}, title : Titles,
              category : {"guide"}, text : {LongText}]
Batches == UNION {[1..n -> Docs] : n \in 0..MaxDocs}

DocInit ==
    /\ dpc = "for"
    /\ documents \in Batches
    /\ didx = 1
    /\ all_chunks = <<>>
    /\ ChunkIdle
    /\ RagIdle

(* lines 87-108: one document *)
ChunkDocument ==
    /\ dpc = "for"
    /\ didx <= Len(documents)
    /\ all_chunks' = all_chunks \o DocChunks(documents[didx])
    /\ didx' = didx + 1
    /\ UNCHANGED <<dpc, documents>>

(* lines 110-111 *)
ReturnChunks ==
    /\ dpc = "for"
    /\ didx > Len(documents)
    /\ dpc' = "done"
    /\ UNCHANGED <<documents, didx, all_chunks>>

DocNext == (ChunkDocument \/ ReturnChunks) /\ UNCHANGED <<chunkVars, ragVars>>

DocSpec == DocInit /\ [][DocNext]_vars

-----------------------------------------------------------------------------
(* C9: the chunks of a document are emitted in segmenter order with        *)
(* chunk_index 0, 1, ..., n-1 and id = slug(url) + "_" + chunk_index, so   *)
(* no two chunks of one document share an id.                              *)
Emitted == SubSeq(all_chunks', Len(all_chunks) + 1, Len(all_chunks'))

C9_IndexedIds ==
    [][(dpc = "for" /\ didx <= Len(documents)) =>
          LET doc == documents[didx]
              segs == ChunkText(doc.text, doc.title, DefaultChunkSize,
                                DefaultOverlap, DefaultMinChunkSize)
          IN /\ SubSeq(all_chunks', 1, Len(all_chunks)) = all_chunks
             /\ Len(Emitted) = Len(segs)
             /\ \A i \in 1..Len(segs) :
                   /\ Emitted[i].text = segs[i]
                   /\ Emitted[i].metadata.chunk_index = i - 1
                   /\ Emitted[i].metadata.url = doc.url
                   /\ Emitted[i].metadata.title = doc.title
                   /\ Emitted[i].metadata.category = doc.category
                   /\ Emitted[i].id =
                        url_to_slug(doc.url) \o <<"_">>
                            \o IntToStr(Emitted[i].metadata.chunk_index)
             /\ \A i, j \in 1..Len(Emitted) :
                   i # j => Emitted[i].id # Emitted[j].id]_vars

(* a batch whose second document gave more than ten chunks *)
C9_Witness ==
    /\ dpc = "done" /\ Len(documents) = 2 /\ Len(all_chunks) >= 13
    /\ all_chunks[1].metadata.url # all_chunks[Len(all_chunks)].metadata.url
    /\ all_chunks[1].id = all_chunks[Len(all_chunks) - 10].id
    /\ all_chunks[Len(all_chunks)].metadata.chunk_index >= 10

-----------------------------------------------------------------------------
(* RAGPipeline.retrieve and RAGPipeline.query (rag.py:32-70, 127-171).     *)
(* The embedder, the vector store and the generator are outside the        *)
(* repository: the hit list is an input (any list, best first), and the    *)
(* generated answer, which no source record reads, is left out.            *)

DefaultTopK == 6          \* rag.py:32, what query's call of retrieve uses
PerPageCap == 2           \* rag.py:54
SnippetLen == 200         \* rag.py:158

Ellipsis == <<".", ".", ".">>

HitTitle == <<"T">>
WellFormed(body) == HitTitle \o <<NL, NL>> \o body
(* the (url, text) pairs hits are made of: bodies of 150 and 250           *)
(* characters, a body of 250 whose 200th character is a space, and a text  *)
(* without the title prefix that starts with a space                       *)
HitKinds == {
    [url |-> "u1", text |-> WellFormed(Rep("x", 150))],
    [url |-> "u1", text |-> WellFormed(Rep("x", 199) \o <<SP>> \o Rep("y", 50))],
    [url |-> "u2", text |-> WellFormed(Rep("x", 250))],
    [url |-> "u2", text |-> <<SP>> \o Rep("z", 200)],
    [url |-> "u3", text |-> WellFormed(Rep("w", 150))]}
RagUrls == {k.url : k \in HitKinds}

HitLists ==
    UNION {{[i \in 1..n |->
               [id |-> i, text |-> ks[i].text,
                metadata |-> [url |-> ks[i].url, title |-> HitTitle,
                              category |-> "guide"],
                distance |-> i]] : ks \in [1..n -> HitKinds]} : n \in 0..MaxHits}

RagInit ==
    /\ rpc = "retrieve"
    /\ entry \in {"retrieve", "query"}
    /\ hits \in HitLists
    /\ top_k \in (IF entry = "query" THEN {DefaultTopK} ELSE 0..MaxTopK)
    /\ ridx = 1
    /\ url_counts = [u \in RagUrls |-> 0]
    /\ deduped = <<>>
    /\ qidx = 1
    /\ seen_urls = <<>>
    /\ sources = <<>>
    /\ ChunkIdle
    /\ DocIdle

(* lines 43-44 *)
RetrieveEmpty ==
    /\ rpc = "retrieve"
    /\ hits = <<>>
    /\ rpc' = "returned"
    /\ UNCHANGED <<entry, hits, top_k, ridx, url_counts, deduped, qidx,
                   seen_urls, sources>>

(* lines 50-55: a hit of a page that already gave two *)
RetrieveSkip ==
    /\ rpc = "retrieve"
    /\ hits # <<>>
    /\ ridx <= Len(hits)
    /\ url_counts[hits[ridx].metadata.url] >= PerPageCap
    /\ ridx' = ridx + 1
    /\ UNCHANGED <<rpc, entry, hits, top_k, url_counts, deduped, qidx,
                   seen_urls, sources>>

(* line 67 *)
Enough(ded, k) == Len(ded) >= k

(* lines 50-68: a hit taken; the loop is left once enough are taken *)
RetrieveAccept ==
    /\ rpc = "retrieve"
    /\ hits # <<>>
    /\ ridx <= Len(hits)
    /\ LET u == hits[ridx].metadata.url
       IN /\ url_counts[u] < PerPageCap
          /\ url_counts' = [url_counts EXCEPT ![u] = @ + 1]
    /\ deduped' = Append(deduped, hits[ridx])
    /\ IF Enough(deduped', top_k)
       THEN rpc' = "returned" /\ ridx' = ridx
       ELSE rpc' = rpc /\ ridx' = ridx + 1
    /\ UNCHANGED <<entry, hits, top_k, qidx, seen_urls, sources>>

(* line 70 after the last hit *)
RetrieveExhausted ==
    /\ rpc = "retrieve"
    /\ hits # <<>>
    /\ ridx > Len(hits)
    /\ rpc' = "returned"
    /\ UNCHANGED <<entry, hits, top_k, ridx, url_counts, deduped, qidx,
                   seen_urls, sources>>

(* lines 133-137 *)
QueryNoContext ==
    /\ rpc = "returned"
    /\ entry = "query"
    /\ deduped = <<>>
    /\ sources' = <<>>
    /\ rpc' = "done"
    /\ UNCHANGED <<entry, hits, top_k, ridx, url_counts, deduped, qidx, seen_urls>>

\* faulty variant: the title is taken to end at the first blank line
RawAfterFirstBlankLine(ctx) ==
    IF StartsWith(ctx.text, ctx.metadata.title \o <<NL, NL>>)
    THEN Join(Tail(SplitBlank(ctx.text)), <<NL, NL>>)
    ELSE ctx.text
(* lines 147-149 *)
Raw(ctx) ==
    IF StartsWith(ctx.text, ctx.metadata.title \o <<NL, NL>>)
    THEN From(ctx.text, Len(ctx.metadata.title) + 2)
    ELSE ctx.text
(* line 150 *)
Quote(ctx) == Strip(Raw(ctx))
\* faulty variant: the snippet is cut from the text with its title
SnippetOfText(ctx) ==
    Strip(Upto(ctx.text, SnippetLen))
        \o (IF Len(ctx.text) > SnippetLen THEN Ellipsis ELSE <<>>)
(* lines 158-160 *)
Snippet(ctx) ==
    Strip(Upto(Raw(ctx), SnippetLen))
        \o (IF Len(Raw(ctx)) > SnippetLen THEN Ellipsis ELSE <<>>)

\* faulty variant: the quote replaces the ones before it
ReplaceQuotes(srcs, idx, quote) ==
    [srcs EXCEPT ![idx + 1].quotes = <<quote>>]
(* lines 154-155, idx counted from 0 *)
AddQuote(srcs, idx, quote) ==
    [srcs EXCEPT ![idx + 1].quotes = Append(@, quote)]

(* lines 143-155: a context of a page that has a source already *)
AggregateSeen ==
    /\ rpc = "returned"
    /\ entry = "query"
    /\ deduped # <<>>
    /\ qidx <= Len(deduped)
    /\ LET ctx == deduped[qidx]
       IN /\ ctx.metadata.url \in DOMAIN seen_urls
          /\ sources' = AddQuote(sources, seen_urls[ctx.metadata.url], Quote(ctx))
    /\ qidx' = qidx + 1
    /\ UNCHANGED <<rpc, entry, hits, top_k, ridx, url_counts, deduped, seen_urls>>

(* lines 143-169: the first context of a page *)
AggregateNew ==
    /\ rpc = "returned"
    /\ entry = "query"
    /\ deduped # <<>>
    /\ qidx <= Len(deduped)
    /\ LET ctx == deduped[qidx]
           url == ctx.metadata.url
       IN /\ url \notin DOMAIN seen_urls
          /\ seen_urls' = [u \in DOMAIN seen_urls \cup {url} |->
                              IF u = url THEN Len(sources) ELSE seen_urls[u]]
          /\ sources' = Append(sources,
                                [url |-> url,
                                 title |-> ctx.metadata.title,
                                 category |-> ctx.metadata.category,
                                 snippet |-> Snippet(ctx),
                                 quotes |-> <<Quote(ctx)>>])
    /\ qidx' = qidx + 1
    /\ UNCHANGED <<rpc, entry, hits, top_k, ridx, url_counts, deduped>>

(* line 171 *)
QueryReturn ==
    /\ rpc = "returned"
    /\ entry = "query"
    /\ deduped # <<>>
    /\ qidx > Len(deduped)
    /\ rpc' = "done"
    /\ UNCHANGED <<entry, hits, top_k, ridx, url_counts, deduped, qidx,
                   seen_urls, sources>>

RagNext ==
    /\ \/ RetrieveEmpty
       \/ RetrieveSkip
       \/ RetrieveAccept
       \/ RetrieveExhausted
       \/ QueryNoContext
       \/ AggregateSeen
       \/ AggregateNew
       \/ QueryReturn
    /\ UNCHANGED <<chunkVars, docVars>>

RagSpec == RagInit /\ [][RagNext]_vars

-----------------------------------------------------------------------------
(* Vocabulary of the retrieval claims.                                     *)
UrlOf(h) == h.metadata.url
CountOf(hs, u) == Cardinality({i \in 1..Len(hs) : UrlOf(hs[i]) = u})
Returned == rpc \in {"returned", "done"}

RECURSIVE SumOfCaps(_, _)
SumOfCaps(hs, urls) ==
    IF urls = {} THEN 0
    ELSE LET u == CHOOSE x \in urls : TRUE
         IN Min2(CountOf(hs, u), 2) + SumOfCaps(hs, urls \ {u})

(* the greedy in-order filter of the claim: scanning from hit i on, a hit  *)
(* is accepted exactly when fewer than 2 hits of its url and fewer than k  *)
(* hits in all were accepted before it                                     *)
RECURSIVE Greedy(_, _, _, _)
Greedy(hs, i, acc, k) ==
    IF i > Len(hs) THEN acc
    ELSE IF CountOf(acc, UrlOf(hs[i])) < 2 /\ Len(acc) < k
         THEN Greedy(hs, i + 1, Append(acc, hs[i]), k)
         ELSE Greedy(hs, i + 1, acc, k)

-----------------------------------------------------------------------------
DedupCapsPositiveTopK ==
    Returned =>
        /\ (top_k >= 1 => Len(deduped) <= top_k)
        /\ (top_k = 0 => Len(deduped) <= 1)
        /\ \A u \in RagUrls : CountOf(deduped, u) <= 2

-----------------------------------------------------------------------------
GreedyFilterPositiveTopK ==
    (Returned /\ top_k >= 1) =>
        /\ deduped = Greedy(hits, 1, <<>>, top_k)
        /\ Len(deduped) = Min2(top_k, SumOfCaps(hits, RagUrls))
        /\ (Len(deduped) >= top_k => hits[ridx] = deduped[top_k])

-----------------------------------------------------------------------------
(* C7: for a non-empty deduplicated list, query builds one Source per      *)
(* distinct url, in the order of each url's first hit; a Source's quotes   *)
(* are the recovered texts of the hits of its url, in hit order; so the    *)
(* quotes are as many as the hits and every Source has one at least.       *)
FirstHits(ctxs) ==
    SelectSeq([i \in 1..Len(ctxs) |-> i],
              LAMBDA i : \A j \in 1..(i - 1) : UrlOf(ctxs[j]) # UrlOf(ctxs[i]))
HitsOfUrl(ctxs, u) == SelectSeq(ctxs, LAMBDA c : UrlOf(c) = u)

RECURSIVE TotalQuotes(_)
TotalQuotes(srcs) ==
    IF srcs = <<>> THEN 0 ELSE Len(Head(srcs).quotes) + TotalQuotes(Tail(srcs))

C7_OneSourcePerUrl ==
    (rpc = "done" /\ deduped # <<>>) =>
        /\ Len(sources) = Len(FirstHits(deduped))
        /\ Len(sources) = Cardinality({UrlOf(deduped[i]) : i \in 1..Len(deduped)})
        /\ \A i \in 1..Len(sources) :
              LET mine == HitsOfUrl(deduped, sources[i].url)
              IN /\ sources[i].url = UrlOf(deduped[FirstHits(deduped)[i]])
                 /\ sources[i].quotes = [k \in 1..Len(mine) |-> Quote(mine[k])]
                 /\ Len(sources[i].quotes) >= 1
        /\ TotalQuotes(sources) = Len(deduped)

(* two urls interleaved: u2, u1, u2 and one more *)
C7_Witness ==
    /\ rpc = "done" /\ Len(deduped) = 4 /\ Len(sources) = 2
    /\ UrlOf(deduped[1]) = UrlOf(deduped[3])
    /\ UrlOf(deduped[1]) # UrlOf(deduped[2])
    /\ Len(sources[1].quotes) = 2 /\ Len(sources[2].quotes) = 2

-----------------------------------------------------------------------------
(* C8 as stated: a Source's snippet is the first 200 characters of the     *)
(* recovered text of the first hit of its url, followed by "..." exactly   *)
(* when that text is longer than 200 characters; later hits of the url     *)
(* leave it alone (the formula holds of every state of the aggregation).   *)
FirstHitOf(ctxs, u) == Head(HitsOfUrl(ctxs, u))

C8_SnippetIsFirst200 ==
    \A i \in 1..Len(sources) :
        LET recovered == Quote(FirstHitOf(deduped, sources[i].url))
        IN sources[i].snippet =
              Upto(recovered, 200)
                  \o (IF Len(recovered) > 200 THEN Ellipsis ELSE <<>>)

(* C8 amended: the snippet is the first 200 characters of the first hit's  *)
(* text after the title prefix is removed and before it is trimmed, these  *)
(* 200 characters then trimmed of whitespace, followed by "..." exactly    *)
(* when the untrimmed text is longer than 200 characters; later hits of    *)
(* the url leave it alone.  So a body of at most 200 characters that is    *)
(* trimmed already is its own snippet, and a longer one gives 200          *)
(* characters and the ellipsis when neither its first nor its 200th        *)
(* character is whitespace.                                                *)
C8_SnippetIsTrimmedFirst200 ==
    \A i \in 1..Len(sources) :
        LET first == FirstHitOf(deduped, sources[i].url)
            untrimmed == IF StartsWith(first.text, first.metadata.title \o <<NL, NL>>)
                         THEN From(first.text, Len(first.metadata.title) + 2)
                         ELSE first.text
        IN /\ sources[i].snippet =
                 Strip(Upto(untrimmed, 200))
                     \o (IF Len(untrimmed) > 200 THEN Ellipsis ELSE <<>>)
           /\ (Len(untrimmed) <= 200 /\ untrimmed = Strip(untrimmed) =>
                 sources[i].snippet = untrimmed)
           /\ ((Len(untrimmed) > 200 /\ untrimmed[1] \notin Whitespace
                                     /\ untrimmed[200] \notin Whitespace) =>
                 (Len(sources[i].snippet) = 203
                  /\ sources[i].snippet = Upto(untrimmed, 200) \o Ellipsis))

(* a Source with a second quote whose first hit has a space as the 200th   *)
(* character of its body: 199 characters and the ellipsis                  *)
C8_Witness ==
    /\ rpc = "done" /\ sources # <<>>
    /\ Len(sources[1].quotes) = 2
    /\ Len(sources[1].quotes[1]) = 250
    /\ Len(sources[1].snippet) = 202

-----------------------------------------------------------------------------
(* The segmenter and the aggregator in a row: chunk_text runs on a text    *)
(* with a title, its chunks are stored with that title as metadata         *)
(* (chunker.py:96-108), and a later query gets some of them back as hits   *)
(* (rag.py:37-48).  The vector store is outside the repository: the hit    *)
(* list is the stored chunks from any one of them on, in order, with or    *)
(* without a hit in front that this segmenter did not write.               *)
TripLen == 4
TripChunk == 2
TripMin == 1

TripTexts == UNION {{Render(c) : c \in [1..n -> Classes]} : n \in 0..TripLen}
(* an empty title, a plain one, and one that holds a blank line *)
TripTitles == {<<>>, <<"T">>, <<"T", NL, NL, "U">>}

(* a hit whose text lacks the title prefix; id 0 tells it from a chunk *)
ForeignHit ==
    [id |-> 0, text |-> <<SP, "z">>,
     metadata |-> [url |-> "u2", title |-> title, category |-> "guide"],
     distance |-> 0]

(* chunker.py:96-108 and rag.py:50-63: chunk i of the call as a hit *)
ChunkHit(i) ==
    [id |-> i, text |-> result[i],
     metadata |-> [url |-> "u1", title |-> title, category |-> "guide"],
     distance |-> i]

ChunkHitsFrom(k) == [j \in 1..(Len(result) - k + 1) |-> ChunkHit(k + j - 1)]

TripHitLists ==
    LET stored == {ChunkHitsFrom(k) : k \in 1..(Len(result) + 1)}
    IN stored \cup {<<ForeignHit>> \o hs : hs \in stored}

TripInit ==
    /\ pc = "start"
    /\ step = "init"
    /\ text \in TripTexts
    /\ title \in TripTitles
    /\ chunk_size \in 1..TripChunk
    /\ overlap \in 0..(chunk_size - 1)
    /\ min_chunk_size \in 0..TripMin
    /\ paragraphs = <<>>
    /\ pidx = 1
    /\ current = <<>>
    /\ chunks = <<>>
    /\ result = <<>>
    /\ DocIdle
    /\ RagIdle

(* rag.py:131 with 32-48: query calls retrieve, which gets the hit list *)
QueryStored ==
    /\ pc = "done"
    /\ rpc = "idle"
    /\ hits' \in TripHitLists
    /\ entry' = "query"
    /\ top_k' = DefaultTopK
    /\ rpc' = "retrieve"
    /\ ridx' = 1
    /\ url_counts' = [u \in RagUrls |-> 0]
    /\ deduped' = <<>>
    /\ qidx' = 1
    /\ seen_urls' = <<>>
    /\ sources' = <<>>
    /\ UNCHANGED <<chunkVars, docVars>>

TripNext ==
    \/ ChunkNext /\ UNCHANGED <<docVars, ragVars>>
    \/ QueryStored
    \/ RagNext

TripSpec == TripInit /\ [][TripNext]_vars

-----------------------------------------------------------------------------
(* Vocabulary of C12.                                                      *)

(* the bodies chunk_text retained, from its candidate chunks *)
RetainedBodies ==
    SelectSeq(Stripped(chunks), LAMBDA c : Len(c) >= min_chunk_size)

(* query is taking the hit deduped[qidx] into the sources *)
Aggregates ==
    /\ rpc = "returned" /\ entry = "query"
    /\ qidx <= Len(deduped) /\ qidx' = qidx + 1

(* the quote the step has just added for that hit *)
RecoveredQuote ==
    LET src == sources'[seen_urls'[deduped[qidx].metadata.url] + 1]
    IN src.quotes[Len(src.quotes)]

HasTitlePrefix(ctx) ==
    /\ Len(ctx.text) >= Len(ctx.metadata.title) + 2
    /\ SubSeq(ctx.text, 1, Len(ctx.metadata.title) + 2)
         = ctx.metadata.title \o <<NL, NL>>

(* a hit that is chunk i of the call gives back body i, which is its text  *)
(* without the first len(title) + 2 characters                             *)
RoundTrip ==
    Aggregates /\ deduped[qidx].id >= 1 =>
        /\ HasTitlePrefix(deduped[qidx])
        /\ RecoveredQuote = RetainedBodies[deduped[qidx].id]
        /\ RecoveredQuote = SubSeq(deduped[qidx].text, Len(title) + 3,
                                   Len(deduped[qidx].text))

(* C12 as stated: for every title (empty, or holding a blank line) and     *)
(* every chunk chunk_text produced with it, the quote query recovers from  *)
(* a hit with that text and title is the body chunk_text retained; and     *)
(* for a hit whose text does not start with title + blank line the quote   *)
(* is the whole text.                                                      *)
C12_QuoteIsBodyElseWholeText ==
    [][/\ RoundTrip
       /\ (Aggregates /\ ~HasTitlePrefix(deduped[qidx]) =>
             RecoveredQuote = deduped[qidx].text)]_vars

(* C12, amended: the same round trip; for a hit whose text does not start  *)
(* with title + blank line the quote is the whole text trimmed of leading  *)
(* and trailing whitespace (line 150).                                     *)
C12_QuoteIsBodyElseTrimmedText ==
    [][/\ RoundTrip
       /\ (Aggregates /\ ~HasTitlePrefix(deduped[qidx]) =>
             RecoveredQuote = Strip(deduped[qidx].text))]_vars

(* with a title that holds a blank line, query has returned a source for   *)
(* the foreign hit and one with two chunks' bodies as its quotes           *)
C12_Witness ==
    /\ rpc = "done" /\ title = <<"T", NL, NL, "U">>
    /\ Len(sources) = 2
    /\ sources[1].url = "u2" /\ sources[1].quotes = <<<<"z">>>>
    /\ sources[2].url = "u1" /\ Len(sources[2].quotes) = 2
    /\ sources[2].quotes = SubSeq(RetainedBodies, deduped[2].id, deduped[3].id)
    /\ \A i \in 1..2 : sources[2].quotes[i] # <<>>

(* the same with an empty title *)
C12_EmptyTitleWitness ==
    /\ rpc = "done" /\ title = <<>>
    /\ sources # <<>> /\ sources[1].url = "u1"
    /\ sources[1].quotes # <<>> /\ sources[1].quotes[1] # <<>>

====
